---- MODULE Spec2Model ----
(***************************************************************************)
(* Quizzer server: the socket.io gateway (index.js), the DBHandler module  *)
(* with its in-memory quizSet cache, and the MongoDB store behind it.      *)
(* Strings are sequences of one-character strings, so that toLowerCase,    *)
(* replace and trim are computed character by character.                   *)
(***************************************************************************)
EXTENDS Integers, Sequences, FiniteSets, TLC

\* ------------------------------------------------------------------ bounds
\* Requests the server receives in one run, over all connections: login,
\* signup and verification requests; addNewWord and addWordsFromFile requests;
\* version and quiz-set queries.
MaxAuth == 1
MaxMutations == 2
MaxQueries == 1
\* Connections that are opened in one run (socket ids 1..MaxConns).
\* SIGINT / SIGTERM signals the process receives.
MaxSignals == 2
MaxConns == 2

ConnIds == 1..MaxConns
ReqIds == 1..(MaxAuth + MaxMutations + MaxQueries)

\* ----------------------------------------------------------------- strings
S_m == <<"m">>
S_M == <<"M">>
S_n == <<"n">>
S_pq == <<"p", ",", "q">>
S_w == <<"w">>
S_wsp == <<"w", " ">>
S_sep == <<" ", "/", " ">>

IsSpace(ch) == ch \in {" ", "\n", "\r", "\t"}
IsAlnum(ch) == ch \in {"m", "M", "n", "p", "q", "w", "v"}

LowerChar(ch) ==
  CASE ch = "M" -> "m"
    [] OTHER -> ch

\* String.prototype.toLowerCase
toLowerCase(s) == [i \in 1..Len(s) |-> LowerChar(s[i])]

\* The character class [^A-Za-z0-9\n\r\s] of the meaning's regular
\* expression, and [^A-Za-z0-9\n\r\s-] of the word's.
MeaningPunct(ch) == ~IsAlnum(ch) /\ ~IsSpace(ch)
WordPunct(ch) == ~IsAlnum(ch) /\ ~IsSpace(ch) /\ ch # "-"

\* s.replace(/(CLASS(?=[^\s]+))/gi, '$& ') from position i on: a character of
\* the class that is directly followed by a non-space character gets one
\* space after it; hyphen tells which of the two classes is meant.
RECURSIVE SpaceAfterFrom(_, _, _)
SpaceAfterFrom(s, i, hyphen) ==
  IF i > Len(s) THEN <<>>
  ELSE LET inClass == IF hyphen THEN WordPunct(s[i]) ELSE MeaningPunct(s[i])
           hit == inClass /\ i < Len(s) /\ ~IsSpace(s[i + 1])
       IN  (IF hit THEN <<s[i], " ">> ELSE <<s[i]>>)
             \o SpaceAfterFrom(s, i + 1, hyphen)

\* String.prototype.trim
RECURSIVE trim(_)
trim(s) ==
  IF s = <<>> THEN s
  ELSE IF IsSpace(Head(s)) THEN trim(Tail(s))
  ELSE IF IsSpace(s[Len(s)]) THEN trim(SubSeq(s, 1, Len(s) - 1))
  ELSE s

NormalizeMeaning(meaning) == trim(SpaceAfterFrom(meaning, 1, FALSE))
NormalizeWord(word) == trim(SpaceAfterFrom(word, 1, TRUE))

\* ------------------------------------------------------------- JS values
\* A payload field: a string, or a value of another type. Names, tokens and
\* addresses are TLA+ strings; words and meanings, whose characters the code
\* inspects, are sequences of characters (JsText).
JsString(s) == [t |-> "string", s |-> s]
JsNumber == [t |-> "number", s |-> "7"]
JsUndefined == [t |-> "undefined", s |-> ""]
JsText(s) == [t |-> "string", s |-> s]
JsNumberForText == [t |-> "number", s |-> <<>>]
typeof(v) == v.t
\* Truthiness of a name, token or address field.
Truthy(v) == IF v.t = "string" THEN v.s # "" ELSE v.t = "number"

\* An object used as a map: a function on the keys it has.
EmptyObject == <<>>
Put(obj, k, v) == [x \in (DOMAIN obj) \cup {k} |-> IF x = k THEN v ELSE obj[x]]

\* ------------------------------------------------------------------ state
VARIABLES
  store,           \* MongoDB: quiz collection name -> (word -> meaning)
  mongoClient,     \* DBHandler.mongoClient: "null" or "client"
  collectionSet,   \* DBHandler.collectionSet: the names that have a handle
  quizSet,         \* DBHandler.quizSet: the cache, name -> (word -> meaning)
  quizSetVersion,  \* DBHandler.quizSetVersion
  startup,         \* "connecting", "failed" (connect error) or "ready"
  errorLogged,     \* logger.error was called for the connect error
  listening,       \* httpServer.listen was called
  sockets,         \* socket id -> "none", "open" or "closed"
  activeUsers,     \* index.js activeUsers
  session,         \* UserHandler: socket id -> logged-in user or "none"
  reqs,            \* the requests whose handler has not finished, by id
  received,        \* requests received so far, by class
  step,            \* the handler step just taken and the socket.emit calls it made
  acked,           \* <<collection, word, meaning>> of every upsert the store acknowledged
  loaded,          \* <<collection, word, meaning>> read from the store at startup
  signals,         \* SIGINT / SIGTERM signals received so far
  exitTimers,      \* setTimeout callbacks of shutdownHandler that have not run
  closes,          \* the mongoClient.close() promises: "pending", "resolved", "rejected"
  exited           \* process.exit was called

vars == <<store, mongoClient, collectionSet, quizSet, quizSetVersion, startup,
          errorLogged, listening, sockets, activeUsers, session, reqs, received,
          step, acked, loaded, signals, exitTimers, closes, exited>>

dbVars == <<mongoClient, collectionSet, quizSet, quizSetVersion>>
bootVars == <<startup, errorLogged, listening>>
ghostVars == <<acked, loaded>>
shutdownVars == <<signals, exitTimers, closes, exited>>

\* What step holds after a step that is no step of a socket handler.
NoStep ==
  [conn |-> 0, kind |-> "none", phase |-> "none", finished |-> FALSE,
   dispatched |-> FALSE, events |-> <<>>]

\* The collections of the database that hold no quiz words.
RootCollection == "_Root"
UserCollection == "UserBase"
\* quizSetVersion of the initializer document of _Root.
RootVersion == "1.0.0"

\* The quiz collections the database may hold when the server starts.
InitStores ==
  { EmptyObject,
    Put(EmptyObject, "Animals", Put(EmptyObject, S_w, S_m)) }

Init ==
  /\ store \in InitStores
  /\ mongoClient = "null"
  /\ collectionSet = {}
  /\ quizSet = EmptyObject
  /\ quizSetVersion = "0.0.0"
  /\ startup = "connecting"
  /\ errorLogged = FALSE
  /\ listening = FALSE
  /\ sockets = [c \in ConnIds |-> "none"]
  /\ activeUsers = 0
  /\ session = [c \in ConnIds |-> "none"]
  /\ reqs = EmptyObject
  /\ received = [auth |-> 0, mutation |-> 0, query |-> 0]
  /\ step = NoStep
  /\ acked = {}
  /\ loaded = {}
  /\ signals = 0
  /\ exitTimers = 0
  /\ closes = <<>>
  /\ exited = FALSE

\* ---------------------------------------------------------------- startup
\* quizzerDatabase.listCollections()
listCollections(st) == (DOMAIN st) \cup {RootCollection, UserCollection}

\* The for loop of openDBConnection over the quiz collections.
LoadQuizSet(st) == [c \in DOMAIN st |-> st[c]]

\* Every <<collection, word, meaning>> an object of collections holds.
Triples(obj) == UNION { { <<c, w, obj[c][w]>> : w \in DOMAIN obj[c] } : c \in DOMAIN obj }

\* MongoClient.connect calls back with a client: every collection gets a
\* handle, the version is read from _Root, every quiz collection is read
\* into quizSet, and the callback starts the HTTP server.
ConnectOk ==
  /\ startup = "connecting"
  /\ mongoClient' = "client"
  /\ collectionSet' = listCollections(store)
  /\ quizSetVersion' = RootVersion
  /\ quizSet' = LoadQuizSet(store)
  /\ loaded' = Triples(store)
  /\ startup' = "ready"
  /\ listening' = TRUE
  /\ step' = NoStep
  /\ UNCHANGED <<store, errorLogged, sockets, activeUsers, session, reqs, received,
                 acked, shutdownVars>>

\* MongoClient.connect calls back with an error: it is logged, and the
\* callback that starts the HTTP server is not called.
ConnectError ==
  /\ startup = "connecting"
  /\ startup' = "failed"
  /\ errorLogged' = TRUE
  /\ step' = NoStep
  /\ UNCHANGED <<store, dbVars, listening, sockets, activeUsers, session, reqs,
                 received, ghostVars, shutdownVars>>

\* ------------------------------------------------------------ connections
\* io.on('connection'): a client can connect once the server listens.
Connect(c) ==
  /\ listening
  /\ sockets[c] = "none"
  /\ \A d \in ConnIds : d < c => sockets[d] # "none"
  /\ sockets' = [sockets EXCEPT ![c] = "open"]
  /\ activeUsers' = activeUsers + 1
  /\ step' = NoStep
  /\ UNCHANGED <<store, dbVars, bootVars, session, reqs, received, ghostVars,
                 shutdownVars>>

\* A disconnect handler that logs nobody out.
logOutUserSkipped(sess, c) == sess

\* UserHandler.logOutUser
logOutUser(sess, c) == [sess EXCEPT ![c] = "none"]

\* A disconnect that drops the unfinished requests of the connection.
PendingAborted(rs, c) == [x \in { y \in DOMAIN rs : rs[y].conn # c } |-> rs[x]]

\* The unfinished requests after connection c closed: the disconnect
\* handler cancels nothing, and no handler looks at the state of its socket.
PendingAfterDisconnect(rs, c) == rs

\* socket.on('disconnect')
Disconnect(c) ==
  /\ sockets[c] = "open"
  /\ sockets' = [sockets EXCEPT ![c] = "closed"]
  /\ activeUsers' = activeUsers - 1
  /\ session' = logOutUser(session, c)
  /\ reqs' = PendingAfterDisconnect(reqs, c)
  /\ step' = NoStep
  /\ UNCHANGED <<store, dbVars, bootVars, received, ghostVars, shutdownVars>>

\* ------------------------------------------------------------ insertNewWord
\* Lines 88-91: an unknown collection name gets a handle and an empty cache
\* entry before anything is written.
EnsureCollection(qs, cs, c) == IF c \in cs THEN qs ELSE Put(qs, c, EmptyObject)

\* Lines 93-96: the meaning cached under the word as supplied, if there is
\* one and it is not empty, is joined with a new meaning that differs from it
\* when both are lower-cased.
MergeMeaning(qs, c, word, meaning) ==
  IF /\ word \in DOMAIN qs[c]
     /\ qs[c][word] # <<>>
     /\ toLowerCase(qs[c][word]) # toLowerCase(meaning)
  THEN qs[c][word] \o S_sep \o meaning
  ELSE meaning

\* Line 102: updateOne({word}, {$set: {word, meaning}}, {upsert: true}).
updateOne(st, c, word, meaning) ==
  Put(st, c, Put(IF c \in DOMAIN st THEN st[c] ELSE EmptyObject, word, meaning))

\* The cache when line 105 is left out.
MirrorSkipped(qs, c, word, meaning) == qs

\* Line 105: quizSet[collectionName][word] = meaning.
Mirror(qs, c, word, meaning) == Put(qs, c, Put(qs[c], word, meaning))

\* The cache when line 105 also runs after a rejected updateOne.
CacheMirroredAfterReject(qs, c, word, meaning) == Put(qs, c, Put(qs[c], word, meaning))

\* The cache after updateOne rejected: line 105 is not reached.
CacheAfterReject(qs, c, word, meaning) == qs

\* The part of insertNewWord that runs before its await, lines 88-102:
\* ok tells whether updateOne was called (quizSet[collectionName] is
\* undefined for _Root and UserBase, which throws a TypeError at line 93).
InsertSync(qs, cs, c, word, meaning) ==
  LET qs1 == EnsureCollection(qs, cs, c)
  IN  IF c \notin DOMAIN qs1
      THEN [ok |-> FALSE, qs |-> qs1, word |-> <<>>, meaning |-> <<>>]
      ELSE [ok |-> TRUE, qs |-> qs1, word |-> NormalizeWord(word),
            meaning |-> NormalizeMeaning(MergeMeaning(qs1, c, word, meaning))]

\* ----------------------------------------------------------------- gateway
\* A socket.emit call: the event, its string argument if it has one, and its
\* object argument if it has one.
Event(ev, arg, data) == [ev |-> ev, arg |-> arg, data |-> data]

\* A step of the handler of a kind of request on connection c: phase
\* "receive" runs from the arrival of the request to its first await,
\* "resume" from an await to the next; finished tells that nothing of the
\* handler remains to run, dispatched that the request reached UserHandler or
\* insertNewWord / insertWordsFromFile, events what the step emitted on c.
Step(c, kind, phase, finished, dispatched, events) ==
  [conn |-> c, kind |-> kind, phase |-> phase, finished |-> finished,
   dispatched |-> dispatched, events |-> events]

\* UserHandler.hasAdminPrivileges: a predicate over the connection's state.
AdminUsers == {"admin@q.io"}
isAdmin(sess, c) == sess[c] \in AdminUsers
hasAdminPrivileges(c) == isAdmin(session, c)

\* A request whose handler has not finished. pc: "writing" (updateOne sent),
\* "acked" (the store applied it), "returned" (insertNewWord of a bulk entry
\* returned), "identity" (a UserHandler call is awaited). For the insertNewWord
\* call it is in: coll, word and meaning are what updateOne is given,
\* argWord and argMeaning what the call was given, before the cache when it
\* was called, overlapped whether another call was in flight during it,
\* peers the arguments of the calls that were.
NewRequest(c, kind, pc) ==
  [conn |-> c, kind |-> kind, pc |-> pc, coll |-> "", word |-> <<>>,
   meaning |-> <<>>, argWord |-> <<>>, argMeaning |-> <<>>, file |-> <<>>,
   idx |-> 0, mail |-> "", overlapped |-> FALSE, peers |-> {},
   before |-> EmptyObject]

\* The id a new request gets: the first that no unfinished request has.
FreshId == CHOOSE r \in ReqIds : r \notin DOMAIN reqs /\ \A q \in 1..(r - 1) : q \in DOMAIN reqs

\* The requests inside an insertNewWord call.
Inserting == { r \in DOMAIN reqs : reqs[r].pc \in {"writing", "acked"} }

\* The arguments of the insertNewWord call a request is in.
CallArgs(rq) == <<rq.coll, rq.argWord, rq.argMeaning>>

\* A new insertNewWord call of request r overlaps every call in flight, and
\* they overlap it.
MarkOverlap(rs, r) ==
  [x \in DOMAIN rs |->
     IF x = r
     THEN [rs[x] EXCEPT !.overlapped = (Inserting \ {r} # {}),
                        !.peers = { CallArgs(rs[q]) : q \in Inserting \ {r} }]
     ELSE IF x \in Inserting
     THEN [rs[x] EXCEPT !.overlapped = TRUE, !.peers = @ \cup {CallArgs(rs[r])}]
     ELSE rs[x]]

Remove(rs, r) == [x \in (DOMAIN rs) \ {r} |-> rs[x]]

Quota == [auth |-> MaxAuth, mutation |-> MaxMutations, query |-> MaxQueries]
CanReceive(c, class) == sockets[c] = "open" /\ received[class] < Quota[class]
Receive(class) == received' = [received EXCEPT ![class] = @ + 1]

\* A catch callback of addWordsFromFile that reports success.
FailureEventSuccess(kind) ==
  IF kind = "addNewWord" THEN "addWordUnsuccessful" ELSE "addWordsFromFileSuccess"

\* The event the catch callback of the handler emits, lines 171 and 183.
FailureEvent(kind) ==
  IF kind = "addNewWord" THEN "addWordUnsuccessful" ELSE "addWordsFromFileUnsuccessful"

\* insertNewWord(collv, word, meaning) is called in the given phase of the
\* handler of request r, which is rq with its call-independent fields set:
\* the call runs to its await. A name that is not a string makes
\* quizzerDatabase.collection throw at line 89; a throw rejects the call, and
\* the catch callback of the handler emits the failure event.
CallInsertNewWord(r, rq, phase, collv, word, meaning) ==
  LET failed == Step(rq.conn, rq.kind, phase, TRUE, TRUE,
                     <<Event(FailureEvent(rq.kind), "", <<>>)>>)
  IN  IF typeof(collv) # "string"
      THEN /\ reqs' = Remove(reqs, r)
           /\ step' = failed
           /\ UNCHANGED <<collectionSet, quizSet>>
      ELSE LET coll == collv.s
               s == InsertSync(quizSet, collectionSet, coll, word, meaning)
           IN  /\ collectionSet' = collectionSet \cup {coll}
               /\ quizSet' = s.qs
               /\ IF s.ok
                  THEN /\ reqs' = MarkOverlap(Put(reqs, r,
                                    [rq EXCEPT !.pc = "writing", !.coll = coll,
                                               !.word = s.word, !.meaning = s.meaning,
                                               !.argWord = word, !.argMeaning = meaning,
                                               !.before = quizSet]), r)
                       /\ step' = Step(rq.conn, rq.kind, phase, FALSE, TRUE, <<>>)
                  ELSE /\ reqs' = Remove(reqs, r)
                       /\ step' = failed

\* What a handler step leaves alone when it only handles a request.
idle == <<store, mongoClient, quizSetVersion, bootVars, sockets, activeUsers,
          session, ghostVars, shutdownVars>>

\* The payloads of addNewWord.
WordPayload(c, w, m) ==
  [collectionName |-> JsString(c), word |-> JsText(w), meaning |-> JsText(m)]
WordPayloads ==
  { WordPayload("Animals", S_w, S_m),
    WordPayload("Animals", S_w, S_M),
    WordPayload("Animals", S_w, S_pq),
    WordPayload("Animals", S_wsp, S_n),
    WordPayload("Plants", S_w, S_m),
    WordPayload(UserCollection, S_w, S_m),
    [collectionName |-> JsString("Animals"), word |-> JsText(S_w),
     meaning |-> JsNumberForText] }

\* The guard without the check of hasAdminPrivileges.
AddNewWordGuardNoAdmin(c, data) ==
  /\ typeof(data.collectionName) = "string"
  /\ typeof(data.word) = "string"
  /\ typeof(data.meaning) = "string"

\* The guard of socket.on('addNewWord'), lines 166-167.
AddNewWordGuard(c, data) ==
  /\ hasAdminPrivileges(c)
  /\ typeof(data.collectionName) = "string"
  /\ typeof(data.word) = "string"
  /\ typeof(data.meaning) = "string"

\* socket.on('addNewWord'): up to the await inside insertNewWord.
OnAddNewWord(c, data) ==
  /\ CanReceive(c, "mutation")
  /\ Receive("mutation")
  /\ IF AddNewWordGuard(c, data)
     THEN CallInsertNewWord(FreshId, NewRequest(c, "addNewWord", "writing"), "receive",
                            data.collectionName, data.word.s, data.meaning.s)
     ELSE /\ step' = Step(c, "addNewWord", "receive", TRUE, FALSE, <<>>)
          /\ UNCHANGED <<collectionSet, quizSet, reqs>>
  /\ UNCHANGED idle

\* FileToWordMeaningArray.getWordMeaningArray: the pairs of the uploaded file.
Pair(w, m) == [word |-> w, meaning |-> m]
FileArrays == { <<>>, <<Pair(S_w, S_pq), Pair(S_w, S_pq)>> }

FilePayloads ==
  { [collectionName |-> JsString("Animals")],
    [collectionName |-> JsUndefined],
    [collectionName |-> JsNumber] }

\* The guard of socket.on('addWordsFromFile'), line 178.
AddWordsFromFileGuard(c, data) ==
  hasAdminPrivileges(c) /\ Truthy(data.collectionName)

\* socket.on('addWordsFromFile'): insertWordsFromFile up to its first await;
\* with no pair to insert it returns at once and the then-callback emits.
OnAddWordsFromFile(c, data, file) ==
  /\ CanReceive(c, "mutation")
  /\ Receive("mutation")
  /\ IF AddWordsFromFileGuard(c, data)
     THEN IF file = <<>>
          THEN /\ step' = Step(c, "addWordsFromFile", "receive", TRUE, TRUE,
                               <<Event("addWordsFromFileSuccess", "", <<>>)>>)
               /\ UNCHANGED <<collectionSet, quizSet, reqs>>
          ELSE CallInsertNewWord(FreshId,
                 [NewRequest(c, "addWordsFromFile", "writing") EXCEPT
                    !.file = file, !.idx = 1],
                 "receive", data.collectionName, file[1].word, file[1].meaning)
     ELSE /\ step' = Step(c, "addWordsFromFile", "receive", TRUE, FALSE, <<>>)
          /\ UNCHANGED <<collectionSet, quizSet, reqs>>
  /\ UNCHANGED idle

\* The store applies the upsert of request r and acknowledges it.
StoreApply(r) ==
  /\ r \in DOMAIN reqs
  /\ reqs[r].pc = "writing"
  /\ store' = updateOne(store, reqs[r].coll, reqs[r].word, reqs[r].meaning)
  /\ acked' = acked \cup {<<reqs[r].coll, reqs[r].word, reqs[r].meaning>>}
  /\ reqs' = [reqs EXCEPT ![r].pc = "acked"]
  /\ step' = NoStep
  /\ UNCHANGED <<dbVars, bootVars, sockets, activeUsers, session, received, loaded,
                 shutdownVars>>

\* What insertNewWord returns, lines 106-110.
Returned(rq) == [collectionName |-> rq.coll, word |-> rq.word, meaning |-> rq.meaning]

\* insertNewWord resumes after the await: line 105 and the return. For
\* addNewWord the then-callback emits addWordSuccess with the result.
InsertResume(r) ==
  /\ r \in DOMAIN reqs
  /\ reqs[r].pc = "acked"
  /\ quizSet' = Mirror(quizSet, reqs[r].coll, reqs[r].word, reqs[r].meaning)
  /\ IF reqs[r].kind = "addNewWord"
     THEN /\ reqs' = Remove(reqs, r)
          /\ step' = Step(reqs[r].conn, "addNewWord", "resume", TRUE, TRUE,
                          <<Event("addWordSuccess", "", Returned(reqs[r]))>>)
     ELSE /\ reqs' = [reqs EXCEPT ![r].pc = "returned"]
          /\ step' = Step(reqs[r].conn, reqs[r].kind, "resume", FALSE, TRUE, <<>>)
  /\ UNCHANGED <<collectionSet, received>>
  /\ UNCHANGED idle

\* updateOne of request r rejects: insertNewWord throws at its await, and
\* the catch callback of the handler emits the failure event.
InsertReject(r) ==
  /\ r \in DOMAIN reqs
  /\ reqs[r].pc = "writing"
  /\ quizSet' = CacheAfterReject(quizSet, reqs[r].coll, reqs[r].word, reqs[r].meaning)
  /\ reqs' = Remove(reqs, r)
  /\ step' = Step(reqs[r].conn, reqs[r].kind, "resume", TRUE, TRUE,
                  <<Event(FailureEvent(reqs[r].kind), "", <<>>)>>)
  /\ UNCHANGED <<collectionSet, received>>
  /\ UNCHANGED idle

\* A loop that calls insertNewWord for the next pair without awaiting the
\* call before.
BulkNotAwaited(rq) == rq.pc \in {"writing", "acked", "returned"}

\* Line 115: await insertNewWord(...) inside the for loop; the loop goes on
\* once the call has returned.
BulkAwaited(rq) == rq.pc = "returned"

\* insertWordsFromFile resumes after an insertNewWord returned: the loop
\* calls insertNewWord for the next pair, or ends and the then-callback emits.
BulkContinue(r) ==
  /\ r \in DOMAIN reqs
  /\ reqs[r].kind = "addWordsFromFile"
  /\ BulkAwaited(reqs[r])
  /\ LET rq == reqs[r]
         i == rq.idx + 1
     IN  IF i > Len(rq.file)
         THEN /\ reqs' = Remove(reqs, r)
              /\ step' = Step(rq.conn, rq.kind, "resume", TRUE, TRUE,
                              <<Event("addWordsFromFileSuccess", "", <<>>)>>)
              /\ UNCHANGED <<collectionSet, quizSet>>
         ELSE CallInsertNewWord(r, [rq EXCEPT !.idx = i], "resume", JsString(rq.coll),
                                rq.file[i].word, rq.file[i].meaning)
  /\ UNCHANGED received
  /\ UNCHANGED idle

\* ------------------------------------------------------- identity requests
\* validateUserMail, lines 99-105: the lower-cased address if the regular
\* expression matches it; otherwise match returns null and [0] throws.
LowerMail(m) == IF m = "Admin@Q.io" THEN "admin@q.io" ELSE m
MatchesMailPattern(m) == m \in {"admin@q.io", "user@q.io"}
validateUserMailThrows(mail) == ~MatchesMailPattern(LowerMail(mail))
validateUserMail(mail) == LowerMail(mail)

Mails == {"Admin@Q.io", "user@q.io", "nobody"}
LoginPayloads ==
  [userMail : Mails, sessionId : {JsString("sid"), JsUndefined},
   password : {JsString("pw"), JsUndefined}]

\* What a UserHandler call can do: resolve with success, resolve with a
\* failure and its reason, or throw.
Outcomes == {"success", "failure", "throw"}
idleAuth == <<store, dbVars, bootVars, sockets, activeUsers, ghostVars, shutdownVars>>

\* socket.on('userLogin') up to its await, lines 111-118; with neither a
\* sessionId nor a password result stays undefined, result["success"] throws
\* and the catch of line 129 emits, as it does when validateUserMail throws.
OnUserLogin(c, cred) ==
  /\ CanReceive(c, "auth")
  /\ Receive("auth")
  /\ IF validateUserMailThrows(cred.userMail)
        \/ (typeof(cred.sessionId) # "string" /\ typeof(cred.password) # "string")
     THEN /\ step' = Step(c, "userLogin", "receive", TRUE, FALSE,
                          <<Event("loginUnsuccessful", "Invalid UserMail", <<>>)>>)
          /\ reqs' = reqs
     ELSE /\ reqs' = Put(reqs, FreshId,
                         [NewRequest(c, "userLogin", "identity") EXCEPT
                            !.mail = validateUserMail(cred.userMail)])
          /\ step' = Step(c, "userLogin", "receive", FALSE, TRUE, <<>>)
  /\ UNCHANGED <<idleAuth, session>>

\* UserHandler.logInUserFromSessionId / logInUserFromPassword: what a
\* successful login leaves in the connection's state.
logInUser(sess, c, mail) == [sess EXCEPT ![c] = mail]

\* The login handler when it grants the privilege on every successful login.
LoginEventsAlwaysGranting(res, admin) ==
  CASE res = "success" ->
         <<Event("loginSuccess", "", <<>>), Event("adminPrivilegeGranted", "", <<>>)>>
    [] res = "failure" -> <<Event("loginUnsuccessful", "reason", <<>>)>>
    [] OTHER -> <<Event("loginUnsuccessful", "Invalid UserMail", <<>>)>>

\* Lines 120-131: what the login handler emits once the call settled.
LoginEvents(res, admin) ==
  CASE res = "success" ->
         <<Event("loginSuccess", "", <<>>)>>
           \o (IF admin THEN <<Event("adminPrivilegeGranted", "", <<>>)>> ELSE <<>>)
    [] res = "failure" -> <<Event("loginUnsuccessful", "reason", <<>>)>>
    [] OTHER -> <<Event("loginUnsuccessful", "Invalid UserMail", <<>>)>>

\* logInUserFromSessionId / logInUserFromPassword settles, on success with
\* the connection logged in as the user, and socket.on('userLogin') resumes
\* after its await.
LoginResume(r, outcome) ==
  /\ r \in DOMAIN reqs
  /\ reqs[r].kind = "userLogin"
  /\ reqs[r].pc = "identity"
  /\ LET sess == IF outcome = "success"
                 THEN logInUser(session, reqs[r].conn, reqs[r].mail)
                 ELSE session
     IN  /\ session' = sess
         /\ step' = Step(reqs[r].conn, "userLogin", "resume", TRUE, TRUE,
                         LoginEvents(outcome, isAdmin(sess, reqs[r].conn)))
  /\ reqs' = Remove(reqs, r)
  /\ UNCHANGED <<idleAuth, received>>

SignupPayloads ==
  [userMail : {"user@q.io", "nobody"}, password : {JsString("pw")},
   websiteURL : {JsString("url"), JsUndefined}]

\* socket.on('userSignup') up to its await, lines 135-138 and 150.
OnUserSignup(c, cred) ==
  /\ CanReceive(c, "auth")
  /\ Receive("auth")
  /\ IF validateUserMailThrows(cred.userMail)
     THEN /\ step' = Step(c, "userSignup", "receive", TRUE, FALSE,
                          <<Event("signupUnsuccessful", "Invalid UserMail", <<>>)>>)
          /\ reqs' = reqs
     ELSE IF typeof(cred.password) = "string" /\ typeof(cred.websiteURL) = "string"
     THEN /\ reqs' = Put(reqs, FreshId,
                         [NewRequest(c, "userSignup", "identity") EXCEPT
                            !.mail = validateUserMail(cred.userMail)])
          /\ step' = Step(c, "userSignup", "receive", FALSE, TRUE, <<>>)
     ELSE /\ step' = Step(c, "userSignup", "receive", TRUE, FALSE, <<>>)
          /\ reqs' = reqs
  /\ UNCHANGED <<idleAuth, session>>

\* Lines 139-147: what the signup handler emits once signUpNewUser settled;
\* the inner catch only logs.
SignupEvents(res) ==
  CASE res = "success" -> <<Event("signupSuccess", "", <<>>)>>
    [] res = "failure" -> <<Event("signupUnsuccessful", "reason", <<>>)>>
    [] OTHER -> <<>>

\* UserHandler.signUpNewUser settles and socket.on('userSignup') resumes.
SignupResume(r, outcome) ==
  /\ r \in DOMAIN reqs
  /\ reqs[r].kind = "userSignup"
  /\ reqs[r].pc = "identity"
  /\ step' = Step(reqs[r].conn, "userSignup", "resume", TRUE, TRUE, SignupEvents(outcome))
  /\ reqs' = Remove(reqs, r)
  /\ UNCHANGED <<idleAuth, session, received>>

VerificationPayloads ==
  {[jwtToken |-> JsString("jwt")], [jwtToken |-> JsUndefined], [jwtToken |-> JsNumber]}

\* socket.on('userVerification') up to its await, lines 155-156.
OnUserVerification(c, data) ==
  /\ CanReceive(c, "auth")
  /\ Receive("auth")
  /\ IF Truthy(data.jwtToken)
     THEN /\ reqs' = Put(reqs, FreshId, NewRequest(c, "userVerification", "identity"))
          /\ step' = Step(c, "userVerification", "receive", FALSE, TRUE, <<>>)
     ELSE /\ reqs' = reqs
          /\ step' = Step(c, "userVerification", "receive", TRUE, FALSE, <<>>)
  /\ UNCHANGED <<idleAuth, session>>

\* Lines 157-161: what the verification handler emits once verifyNewUser
\* settled; a rejection leaves the async handler with nothing emitted.
VerificationEvents(res) ==
  CASE res = "success" -> <<Event("verificationSuccess", "", <<>>)>>
    [] res = "failure" -> <<Event("verificationUnsuccessful", "reason", <<>>)>>
    [] OTHER -> <<>>

\* UserHandler.verifyNewUser settles and socket.on('userVerification') resumes.
VerificationResume(r, outcome) ==
  /\ r \in DOMAIN reqs
  /\ reqs[r].kind = "userVerification"
  /\ reqs[r].pc = "identity"
  /\ step' = Step(reqs[r].conn, "userVerification", "resume", TRUE, TRUE,
                  VerificationEvents(outcome))
  /\ reqs' = Remove(reqs, r)
  /\ UNCHANGED <<idleAuth, session, received>>

\* --------------------------------------------------------------- queries
\* A version that also counts the words of the cache.
getQuizSetVersionCountingWords == <<quizSetVersion, Cardinality(Triples(quizSet))>>

\* DBHandler.getQuizSetVersion and getQuizSet, lines 74-79.
getQuizSetVersion == quizSetVersion
getQuizSet == quizSet

\* socket.on('sendLatestQuizSetVersion')
OnSendLatestQuizSetVersion(c) ==
  /\ CanReceive(c, "query")
  /\ Receive("query")
  /\ step' = Step(c, "sendLatestQuizSetVersion", "receive", TRUE, FALSE,
                  <<Event("latestQuizSetVersion", getQuizSetVersion, <<>>)>>)
  /\ UNCHANGED <<idleAuth, session, reqs>>

\* socket.on('sendQuizSet')
OnSendQuizSet(c) ==
  /\ CanReceive(c, "query")
  /\ Receive("query")
  /\ step' = Step(c, "sendQuizSet", "receive", TRUE, FALSE,
                  <<Event("latestQuizSet", getQuizSetVersion, getQuizSet)>>)
  /\ UNCHANGED <<idleAuth, session, reqs>>

\* ------------------------------------------------------------------- spec
Next ==
  \/ ConnectOk
  \/ ConnectError
  \/ \E c \in ConnIds : Connect(c)
  \/ \E c \in ConnIds : Disconnect(c)
  \/ \E c \in ConnIds, cred \in LoginPayloads : OnUserLogin(c, cred)
  \/ \E r \in ReqIds, o \in Outcomes : LoginResume(r, o)
  \/ \E c \in ConnIds, cred \in SignupPayloads : OnUserSignup(c, cred)
  \/ \E r \in ReqIds, o \in Outcomes : SignupResume(r, o)
  \/ \E c \in ConnIds, data \in VerificationPayloads : OnUserVerification(c, data)
  \/ \E r \in ReqIds, o \in Outcomes : VerificationResume(r, o)
  \/ \E c \in ConnIds, data \in WordPayloads : OnAddNewWord(c, data)
  \/ \E c \in ConnIds, data \in FilePayloads, file \in FileArrays :
       OnAddWordsFromFile(c, data, file)
  \/ \E r \in ReqIds : StoreApply(r)
  \/ \E r \in ReqIds : InsertResume(r)
  \/ \E r \in ReqIds : InsertReject(r)
  \/ \E r \in ReqIds : BulkContinue(r)
  \/ \E c \in ConnIds : OnSendLatestQuizSetVersion(c)
  \/ \E c \in ConnIds : OnSendQuizSet(c)

Spec == Init /\ [][Next]_vars

\* ---------------------------------------------------------------- shutdown
Signals == {"SIGINT", "SIGTERM"}

\* What shutdownHandler leaves alone, and the steps that complete a close.
serverVars == <<store, dbVars, bootVars, sockets, activeUsers, session, reqs, received,
                step, ghostVars>>

\* DBHandler.closeDBConnection, lines 139-148: with a client, close() is
\* called and its promise is pending; without one nothing is done.
closeDBConnection(cl) == IF mongoClient # "null" THEN Append(cl, "pending") ELSE cl

\* A shutdownHandler that sets no timer.
setTimeoutDropped(timers) == timers

\* setTimeout(() => { ...; process.exit(1); }, 25000), lines 59-62.
setTimeoutExit(timers) == timers + 1

\* shutdownHandler, lines 55-63, run for a SIGINT or SIGTERM.
shutdownHandler(event) ==
  /\ ~exited
  /\ signals < MaxSignals
  /\ signals' = signals + 1
  /\ closes' = closeDBConnection(closes)
  /\ exitTimers' = setTimeoutExit(exitTimers)
  /\ UNCHANGED <<serverVars, exited>>

\* mongoClient.close() resolves: the then callback logs.
CloseResolves(i) ==
  /\ ~exited
  /\ i \in DOMAIN closes
  /\ closes[i] = "pending"
  /\ closes' = [closes EXCEPT ![i] = "resolved"]
  /\ UNCHANGED <<serverVars, signals, exitTimers, exited>>

\* mongoClient.close() rejects: the catch callback logs the error.
CloseRejects(i) ==
  /\ ~exited
  /\ i \in DOMAIN closes
  /\ closes[i] = "pending"
  /\ closes' = [closes EXCEPT ![i] = "rejected"]
  /\ UNCHANGED <<serverVars, signals, exitTimers, exited>>

\* 25 seconds after a signal its timer callback runs: process.exit(1).
ExitTimerFires ==
  /\ ~exited
  /\ exitTimers > 0
  /\ exitTimers' = exitTimers - 1
  /\ exited' = TRUE
  /\ UNCHANGED <<serverVars, signals, closes>>

\* The process from its start to its exit: the store connection, the
\* connections of clients, the signals and what they set off. A close that
\* hangs is a close promise that stays pending.
ShutdownNext ==
  \/ ~exited /\ ConnectOk
  \/ ~exited /\ ConnectError
  \/ ~exited /\ \E c \in ConnIds : Connect(c)
  \/ ~exited /\ \E c \in ConnIds : Disconnect(c)
  \/ \E event \in Signals : shutdownHandler(event)
  \/ \E i \in 1..MaxSignals : CloseResolves(i)
  \/ \E i \in 1..MaxSignals : CloseRejects(i)
  \/ ExitTimerFires

\* The event loop runs the callback of a timer that is due.
ShutdownSpec == Init /\ [][ShutdownNext]_vars /\ WF_vars(ExitTimerFires)

\* ------------------------------------------------------------------ claims
\* The insertNewWord call of request r completes in this step, and no other
\* call was in flight while it ran.
CompletesAlone(r) == r \in DOMAIN reqs /\ InsertResume(r) /\ ~reqs[r].overlapped
FailsAlone(r) == r \in DOMAIN reqs /\ InsertReject(r) /\ ~reqs[r].overlapped

Holds(obj, c, w, m) == c \in DOMAIN obj /\ w \in DOMAIN obj[c] /\ obj[c][w] = m
EventNames(evs) == { evs[i].ev : i \in DOMAIN evs }

\* C1: when an insertNewWord call completes with no other insertion
\* overlapping it, the cache entry under the normalized word equals the
\* meaning the call returns, and the store record of that word holds the
\* same meaning.
C1_WriteThrough ==
  [][\A r \in ReqIds :
       CompletesAlone(r) =>
         LET rq == reqs[r]
             nw == NormalizeWord(rq.argWord)
         IN  /\ Returned(rq).word = nw
             /\ Holds(quizSet', rq.coll, nw, Returned(rq).meaning)
             /\ Holds(store', rq.coll, nw, Returned(rq).meaning)]_vars

\* An addNewWord has just succeeded with a merged and normalized meaning,
\* which the cache and the store hold.
C1_Witness ==
  /\ step.kind = "addNewWord"
  /\ step.phase = "resume"
  /\ EventNames(step.events) = {"addWordSuccess"}
  /\ step.events[1].data.meaning = S_m \o S_sep \o <<"p", ",", " ", "q">>
  /\ Holds(quizSet, "Animals", S_w, step.events[1].data.meaning)
  /\ Holds(store, "Animals", S_w, step.events[1].data.meaning)

\* C2: when updateOne rejects, the cache after the failed call is the cache
\* before the call, also for a collection name that was unknown (stated for
\* calls that no other call overlaps).
C2_FailedWriteLeavesCache ==
  [][\A r \in ReqIds : FailsAlone(r) => quizSet' = reqs[r].before]_vars

\* C3: every meaning the cache holds was loaded at startup or written by an
\* upsert the store has acknowledged.
C3_CacheOnlyAcknowledged == Triples(quizSet) \subseteq (loaded \cup acked)

\* The cache holds an acknowledged meaning that was not loaded, while the
\* write of another meaning is pending and is not in the cache.
C3_Witness ==
  /\ \E t \in Triples(quizSet) : t \in acked /\ t \notin loaded
  /\ \E r \in DOMAIN reqs :
       /\ reqs[r].pc = "writing"
       /\ <<reqs[r].coll, reqs[r].word, reqs[r].meaning>> \notin Triples(quizSet)

\* C4: an addNewWord or addWordsFromFile request on a connection without
\* admin privileges emits nothing, issues no store write and changes no
\* cache entry.
C4_NonAdminIgnored ==
  [][(/\ received' # received
      /\ step'.kind \in {"addNewWord", "addWordsFromFile"}
      /\ step'.phase = "receive"
      /\ ~hasAdminPrivileges(step'.conn))
       => /\ step'.events = <<>>
          /\ store' = store
          /\ quizSet' = quizSet
          /\ collectionSet' = collectionSet
          /\ reqs' = reqs]_vars

\* A connection without admin privileges has just sent addNewWord while
\* another connection holds them.
C4_Witness ==
  /\ step.kind = "addNewWord"
  /\ step.phase = "receive"
  /\ ~hasAdminPrivileges(step.conn)
  /\ \E c \in ConnIds : sockets[c] = "open" /\ hasAdminPrivileges(c)

\* C5: merge law. A call with meaning M for a word whose stored meaning X
\* is not M when both are lower-cased leaves X / M stored and cached; three
\* calls from no entry so give M1, M1 / M2, M1 / M2 / M3 (stated for
\* meanings that normalization leaves as they are).
C5_MergeLaw ==
  [][\A r \in ReqIds :
       CompletesAlone(r) =>
         LET rq == reqs[r]
             nw == NormalizeWord(rq.argWord)
             M == rq.argMeaning
         IN  (/\ NormalizeMeaning(M) = M
              /\ M # <<>>
              /\ rq.coll \in DOMAIN rq.before
              /\ nw \in DOMAIN rq.before[rq.coll]
              /\ toLowerCase(rq.before[rq.coll][nw]) # toLowerCase(M))
               => /\ Holds(quizSet', rq.coll, nw, rq.before[rq.coll][nw] \o S_sep \o M)
                  /\ Holds(store', rq.coll, nw, rq.before[rq.coll][nw] \o S_sep \o M)]_vars

\* C6: idempotence. The second of two successive insertNewWord calls with
\* the same collection, word and meaning leaves the stored meaning as the
\* first left it (stated for two equal successive pairs of a file).
C6_Idempotent ==
  [][\A r \in ReqIds :
       (/\ CompletesAlone(r)
        /\ reqs[r].idx > 1
        /\ reqs[r].file[reqs[r].idx] = reqs[r].file[reqs[r].idx - 1])
         => LET rq == reqs[r]
                nw == NormalizeWord(rq.argWord)
            IN  /\ nw \in DOMAIN rq.before[rq.coll]
                /\ Holds(quizSet', rq.coll, nw, rq.before[rq.coll][nw])
                /\ Holds(store', rq.coll, nw, rq.before[rq.coll][nw])]_vars

\* C7: a dispatched request ends with exactly one outcome event on its
\* connection, adminPrivilegeGranted not counted, also when the UserHandler
\* or store call throws.
C7_ExactlyOneOutcome ==
  /\ (step.kind # "none" /\ ~step.finished) => step.events = <<>>
  /\ (step.finished /\ (step.dispatched \/ step.kind = "userLogin"))
       => Cardinality({ i \in DOMAIN step.events :
                          step.events[i].ev # "adminPrivilegeGranted" }) = 1

\* C8: when the store connection cannot be established, the error is logged
\* and the server still starts listening.
C8_DegradedServing == startup = "failed" => (errorLogged /\ listening)

\* C9: the version getQuizSetVersion returns changes only in the startup
\* load.
C9_VersionOnlyAtLoad ==
  [][getQuizSetVersion' # getQuizSetVersion
       => (startup = "connecting" /\ startup' = "ready")]_vars

\* Words were inserted, one insertion failed or is pending, and the version
\* is the one loaded at startup.
C9_Witness ==
  /\ getQuizSetVersion = RootVersion
  /\ \E t \in Triples(quizSet) : t \notin loaded
  /\ step.kind \in {"addNewWord", "addWordsFromFile"}
  /\ EventNames(step.events) \cap {"addWordUnsuccessful", "addWordsFromFileUnsuccessful"} # {}

\* C10: adminPrivilegeGranted is emitted only directly after the
\* loginSuccess of the same login step, and exactly when hasAdminPrivileges
\* holds for the connection then; a failed login emits neither.
C10_AdminGrant ==
  [][/\ \A i \in DOMAIN step'.events :
          step'.events[i].ev = "adminPrivilegeGranted"
            => /\ step'.kind = "userLogin"
               /\ i > 1
               /\ step'.events[i - 1].ev = "loginSuccess"
     /\ \A r \in ReqIds, o \in Outcomes :
          (r \in DOMAIN reqs /\ LoginResume(r, o))
            => LET names == EventNames(step'.events)
               IN  IF o = "success"
                   THEN /\ "loginSuccess" \in names
                        /\ ("adminPrivilegeGranted" \in names)
                             <=> isAdmin(session', reqs[r].conn)
                   ELSE names = {"loginUnsuccessful"}]_vars

\* An admin has just logged in and was granted the privilege.
C10_Witness ==
  /\ step.kind = "userLogin"
  /\ step.phase = "resume"
  /\ Len(step.events) = 2
  /\ step.events[2].ev = "adminPrivilegeGranted"
  /\ hasAdminPrivileges(step.conn)

\* The parts of a meaning that " / " separates, from position i on, cur
\* being the part read so far.
RECURSIVE PartsFrom(_, _, _)
PartsFrom(s, i, cur) ==
  IF i > Len(s) THEN {cur}
  ELSE IF i + 2 <= Len(s) /\ SubSeq(s, i, i + 2) = S_sep
       THEN {cur} \cup PartsFrom(s, i + 3, <<>>)
       ELSE PartsFrom(s, i + 1, Append(cur, s[i]))
Parts(s) == PartsFrom(s, 1, <<>>)
LowerParts(s) == { toLowerCase(p) : p \in Parts(s) }

\* C11: after a successful insertNewWord call (w, m) that no other call
\* overlaps, the meaning stored and cached under the normalized w has the
\* normalized m among its parts, and every part that was cached under the
\* normalized w before the call (parts compared lower-cased).
C11_Accumulates ==
  [][\A r \in ReqIds :
       CompletesAlone(r) =>
         LET rq == reqs[r]
             nw == NormalizeWord(rq.argWord)
             old == IF rq.coll \in DOMAIN rq.before /\ nw \in DOMAIN rq.before[rq.coll]
                    THEN LowerParts(rq.before[rq.coll][nw])
                    ELSE {}
             new == LowerParts(NormalizeMeaning(rq.argMeaning))
         IN  /\ nw \in DOMAIN store'[rq.coll]
             /\ nw \in DOMAIN quizSet'[rq.coll]
             /\ (old \cup new) \subseteq LowerParts(store'[rq.coll][nw])
             /\ (old \cup new) \subseteq LowerParts(quizSet'[rq.coll][nw])]_vars

\* C12: when the last of overlapping insertNewWord calls completes, for
\* every acknowledged call that overlapped it with the same collection and
\* word and a meaning that differs when lower-cased, the stored and the
\* cached meaning have both normalized meanings among their parts.
C12_OverlapKeepsBoth ==
  [][\A r \in ReqIds :
       (r \in DOMAIN reqs /\ InsertResume(r) /\ Inserting \ {r} = {}) =>
         LET rq == reqs[r]
             mine == LowerParts(NormalizeMeaning(rq.argMeaning))
         IN  \A p \in rq.peers :
               LET theirs == LowerParts(NormalizeMeaning(p[3]))
               IN  (/\ p[1] = rq.coll
                    /\ p[2] = rq.argWord
                    /\ toLowerCase(p[3]) # toLowerCase(rq.argMeaning)
                    /\ \E t \in acked :
                         t[1] = rq.coll /\ t[2] = rq.word /\ theirs \subseteq LowerParts(t[3]))
                     => /\ (mine \cup theirs) \subseteq LowerParts(store'[rq.coll][rq.word])
                        /\ (mine \cup theirs) \subseteq LowerParts(quizSet'[rq.coll][rq.word])]_vars

\* C13: once the server has loaded the cache, in every state with no
\* insertNewWord call in flight the cache holds every word of the store
\* with the meaning the store holds.
C13_CacheMatchesStore ==
  (startup = "ready" /\ Inserting = {}) =>
    \A c \in DOMAIN store : \A w \in DOMAIN store[c] : Holds(quizSet, c, w, store[c][w])

\* C14: a request reaches UserHandler, insertNewWord or insertWordsFromFile
\* only if every required field of its payload is a string.
C14_TypedBeforeDispatch ==
  [][/\ \A c \in ConnIds, cred \in LoginPayloads :
          (OnUserLogin(c, cred) /\ step'.dispatched)
            => (typeof(cred.sessionId) = "string" \/ typeof(cred.password) = "string")
     /\ \A c \in ConnIds, cred \in SignupPayloads :
          (OnUserSignup(c, cred) /\ step'.dispatched)
            => (typeof(cred.password) = "string" /\ typeof(cred.websiteURL) = "string")
     /\ \A c \in ConnIds, data \in VerificationPayloads :
          (OnUserVerification(c, data) /\ step'.dispatched)
            => typeof(data.jwtToken) = "string"
     /\ \A c \in ConnIds, data \in WordPayloads :
          (OnAddNewWord(c, data) /\ step'.dispatched)
            => /\ typeof(data.collectionName) = "string"
               /\ typeof(data.word) = "string"
               /\ typeof(data.meaning) = "string"
     /\ \A c \in ConnIds, data \in FilePayloads, file \in FileArrays :
          (OnAddWordsFromFile(c, data, file) /\ step'.dispatched)
            => typeof(data.collectionName) = "string"]_vars

InvalidUserMail == "Invalid UserMail"
Reasons(evs) == { evs[i].arg : i \in DOMAIN evs }

\* C15: a userLogin or userSignup whose userMail fails validateUserMail
\* ends at once with the failure event and the reason Invalid UserMail and
\* reaches neither UserHandler nor the store; and that reason is emitted
\* only for a request whose userMail failed validation.
C15_InvalidMailReason ==
  [][/\ \A c \in ConnIds, cred \in LoginPayloads :
          OnUserLogin(c, cred) =>
            /\ validateUserMailThrows(cred.userMail)
                 => /\ step'.events = <<Event("loginUnsuccessful", InvalidUserMail, <<>>)>>
                    /\ ~step'.dispatched /\ reqs' = reqs /\ store' = store
            /\ InvalidUserMail \in Reasons(step'.events)
                 => validateUserMailThrows(cred.userMail)
     /\ \A c \in ConnIds, cred \in SignupPayloads :
          OnUserSignup(c, cred) =>
            /\ validateUserMailThrows(cred.userMail)
                 => /\ step'.events = <<Event("signupUnsuccessful", InvalidUserMail, <<>>)>>
                    /\ ~step'.dispatched /\ reqs' = reqs /\ store' = store
            /\ InvalidUserMail \in Reasons(step'.events)
                 => validateUserMailThrows(cred.userMail)
     /\ (step'.phase = "resume" /\ step' # step)
          => InvalidUserMail \notin Reasons(step'.events)]_vars

C17_BulkStopsOnFailure ==
  [][\A r \in ReqIds :
       (r \in DOMAIN reqs /\ reqs[r].kind = "addWordsFromFile" /\ InsertReject(r)) =>
         LET rq == reqs[r]
         IN  /\ r \notin DOMAIN reqs'
             /\ store' = store
             /\ quizSet' = quizSet
             /\ acked' = acked
             /\ ~rq.overlapped => Triples(rq.before) \subseteq Triples(quizSet')
             /\ step'.conn = rq.conn
             /\ step'.finished
             /\ step'.events = <<Event("addWordsFromFileUnsuccessful", "", <<>>)>>]_vars

\* The only mutation so far is a file whose first pair was written and
\* mirrored and whose second pair failed.
C17_Witness ==
  /\ received.mutation = 1
  /\ step.kind = "addWordsFromFile"
  /\ step.phase = "resume"
  /\ EventNames(step.events) = {"addWordsFromFileUnsuccessful"}
  /\ reqs = EmptyObject
  /\ Holds(store, "Animals", S_w, <<"p", ",", " ", "q">>)
  /\ Holds(quizSet, "Animals", S_w, <<"p", ",", " ", "q">>)
  /\ <<"Animals", S_w, <<"p", ",", " ", "q">>>> \in acked

\* C18: a disconnect leaves the unfinished requests of its connection as
\* they are; an addNewWord write of a closed connection that the store
\* acknowledges is mirrored into the cache like any other; and sendQuizSet
\* answers any connection with the cache as it then is.
C18_DisconnectKeepsWrite ==
  [][/\ \A c \in ConnIds : Disconnect(c) => reqs' = reqs
     /\ \A r \in ReqIds :
          (/\ r \in DOMAIN reqs
           /\ reqs[r].kind = "addNewWord"
           /\ sockets[reqs[r].conn] = "closed"
           /\ InsertResume(r))
            => /\ <<reqs[r].coll, reqs[r].word, reqs[r].meaning>> \in acked
               /\ Holds(quizSet', reqs[r].coll, reqs[r].word, reqs[r].meaning)
     /\ \A c \in ConnIds :
          OnSendQuizSet(c) => step'.events = <<Event("latestQuizSet", quizSetVersion, quizSet)>>]_vars

\* The write of an addNewWord has just been mirrored into the cache after
\* its connection closed and was logged out, and another connection is
\* open that can still ask for the quiz set.
C18_Witness ==
  /\ step.kind = "addNewWord"
  /\ step.phase = "resume"
  /\ sockets[step.conn] = "closed"
  /\ ~hasAdminPrivileges(step.conn)
  /\ EventNames(step.events) = {"addWordSuccess"}
  /\ Holds(getQuizSet, step.events[1].data.collectionName, step.events[1].data.word,
           step.events[1].data.meaning)
  /\ \E c \in ConnIds : CanReceive(c, "query")

OpenConnections == { c \in ConnIds : sockets[c] = "open" }

\* C20: activeUsers is the number of open connections in every state, and
\* every connection close logs out the closing connection, and no other.
C20_ActiveUsers ==
  /\ [](activeUsers = Cardinality(OpenConnections) /\ activeUsers >= 0)
  /\ [][\A c \in ConnIds :
          Disconnect(c) =>
            /\ session'[c] = "none"
            /\ \A d \in ConnIds \ {c} : session'[d] = session[d]]_vars

\* A logged-in connection has closed and is logged out while a write of it
\* is still in flight, and the other connection is open.
C20_Witness ==
  /\ activeUsers = 1
  /\ \E c \in ConnIds :
       /\ sockets[c] = "closed"
       /\ session[c] = "none"
       /\ \E r \in DOMAIN reqs : reqs[r].conn = c /\ reqs[r].pc = "writing"
  /\ OpenConnections # {}

\* C19: once a SIGINT or SIGTERM was received the process eventually
\* exits, whatever becomes of the close of the store connection.
C19_ExitsAfterSignal == (signals > 0) ~> exited

\* The process has exited after two signals with one close of the store
\* connection failed and the other never completed.
C19_Witness ==
  /\ exited
  /\ signals = 2
  /\ \E i \in DOMAIN closes : closes[i] = "rejected"
  /\ \E i \in DOMAIN closes : closes[i] = "pending"
====
